---- MODULE Spec2Model ----
(***************************************************************************)
(* Model of the face-comparison orchestrator AWSRekognitionClient          *)
(* (src/src/utils/AWSRekognition.ts): construction, the three compare      *)
(* operations, the remote CompareFaces call they await, and processResult, *)
(* which collapses the raw response into a MatchResponse.                  *)
(***************************************************************************)
EXTENDS Integers, Sequences, FiniteSets, TLC

\* Longest FaceMatches list the remote service returns in the model.
MaxCandidates == 2

\* JavaScript `undefined` for string-valued properties.
Undefined == "undefined"

\* A reference that holds no object (no instance, no request, no reply yet).
None == [none |-> TRUE]

\* Values of CompareFacesMatch.Similarity that the service returns.
Similarities == {0, 90, 97}

\* Values of CompareFacesMatch.Face (opaque ComparedFace descriptors).
Faces == {"abc", "xyz"}

\* One entry of FaceMatches; both properties are optional in the SDK type.
Candidates ==
  [Similarity : Similarities, Face : Faces \cup {Undefined}]
    \cup [Face : Faces \cup {Undefined}]

RECURSIVE SeqsUpTo(_, _)
SeqsUpTo(S, n) ==
  IF n = 0 THEN {<<>>}
  ELSE LET shorter == SeqsUpTo(S, n - 1)
       IN shorter \cup {Append(s, c) : s \in {t \in shorter : Len(t) = n - 1}, c \in S}

\* CompareFacesCommandOutput: FaceMatches is optional.
Responses ==
  [metadata : {"200"}, FaceMatches : SeqsUpTo(Candidates, MaxCandidates)]
    \cup [metadata : {"200"}]

\* Errors rekognitionClient.send rejects with.
Errors == {"NetworkError", "ThrottlingException"}

\* Arguments of the compare operations.
Keys == {"srcKey", "targetKey"}
ByteBuffers == {"bytesA", "bytesB"}

\* Arguments of the constructor.
Thresholds == {80, 98}

\* process.env as the orchestrator reads it.
Envs ==
  { [AWS_REGION |-> "us-east-1", AWS_ACCESS_KEY_ID |-> "id",
     AWS_SECRET_ACCESS_KEY |-> "secret", AWS_BUCKET_NAME |-> "faces"],
    [AWS_REGION |-> Undefined, AWS_ACCESS_KEY_ID |-> Undefined,
     AWS_SECRET_ACCESS_KEY |-> Undefined, AWS_BUCKET_NAME |-> Undefined] }

QualityFilterHIGH == "HIGH"

VARIABLES
  env,        \* process.env
  client,     \* the AWSRekognitionClient instance, or None
  pc,         \* position of the compare operation: idle, awaitSend, resume, done
  op,         \* which compare operation is running
  args,       \* its two arguments
  request,    \* the CompareFacesCommandInput handed to rekognitionClient.send
  sends,      \* number of rekognitionClient.send calls of this invocation
  reply,      \* what the remote service answered: a response or an error
  logged,     \* number of processResult runs (console.log) of this invocation
  outcome,    \* how the operation's promise settled
  httpRoute,  \* route of the HTTP request being handled: none, /raw, /combined
  httpBody,   \* req.body
  stage,      \* position of the route handler
  locals,     \* the handler's local constants assigned so far
  fetch,      \* the axios.get call of convertToBase64 in flight, or None
  callLog,    \* external calls the handler issued, in order, with their result
  httpSent,   \* responses written with res.status(..).json(..), in order
  nInput,     \* raw response handed to processResult directly
  nResults,   \* results of the successive direct processResult calls on it
  inflight    \* concurrent compare invocations, one record per invocation

\* The orchestrator and the compare operation in progress.
coreVars == <<env, client, pc, op, args, request, sends, reply, logged, outcome>>

\* An HTTP request being handled by a route of the app.
routeVars == <<httpRoute, httpBody, stage, locals, fetch, callLog, httpSent>>

\* Direct calls of processResult.
normVars == <<nInput, nResults>>

\* Concurrent invocations.
concVars == <<inflight>>

vars == <<coreVars, routeVars, normVars, concVars>>

\* ------------------------------------------------------------------------
\* processResult

\* response['FaceMatches'] && response['FaceMatches'].length
HasCandidates(response) ==
  /\ "FaceMatches" \in DOMAIN response
  /\ Len(response.FaceMatches) # 0

\* response['FaceMatches'][0].Similarity ?? 0
TopSimilarity(response) ==
  LET top == response.FaceMatches[1]
  IN IF "Similarity" \in DOMAIN top THEN top.Similarity ELSE 0

\* Variant: any candidate counts as a match, whatever its similarity.
processResult_AnyCandidate(response) ==
  IF HasCandidates(response)
  THEN LET similarityScore == TopSimilarity(response)
       IN [hasMatch |-> TRUE,
           score |-> similarityScore,
           mostMatchedFace |-> response.FaceMatches[1].Face,
           rawResponse |-> response]
  ELSE [hasMatch |-> FALSE,
        score |-> 0,
        rawResponse |-> response]

\* Similarity of a candidate, `?? 0`.
SimilarityOf(candidate) ==
  IF "Similarity" \in DOMAIN candidate THEN candidate.Similarity ELSE 0

\* Variant: the list is re-ranked and the most similar candidate reported.
processResult_BestCandidate(response) ==
  IF HasCandidates(response)
  THEN LET matches == response.FaceMatches
           best == CHOOSE i \in 1..Len(matches) :
                     \A j \in 1..Len(matches) :
                       /\ SimilarityOf(matches[i]) >= SimilarityOf(matches[j])
                       /\ (SimilarityOf(matches[i]) = SimilarityOf(matches[j]) => i <= j)
       IN [hasMatch |-> SimilarityOf(matches[best]) > 0,
           score |-> SimilarityOf(matches[best]),
           mostMatchedFace |-> matches[best].Face,
           rawResponse |-> response]
  ELSE [hasMatch |-> FALSE,
        score |-> 0,
        rawResponse |-> response]

\* Variant: only the presence of FaceMatches is tested, the first entry is
\* read with optional chaining.
processResult_PresenceOnly(response) ==
  IF "FaceMatches" \in DOMAIN response
  THEN LET top == IF Len(response.FaceMatches) # 0
                  THEN response.FaceMatches[1]
                  ELSE [Face |-> Undefined]
           similarityScore == SimilarityOf(top)
       IN [hasMatch |-> similarityScore > 0,
           score |-> similarityScore,
           mostMatchedFace |-> top.Face,
           rawResponse |-> response]
  ELSE [hasMatch |-> FALSE,
        score |-> 0,
        rawResponse |-> response]

\* Variant: the match verdict is gated by the instance's threshold.
processResult_ThresholdGate(response) ==
  IF HasCandidates(response)
  THEN LET similarityScore == TopSimilarity(response)
       IN [hasMatch |-> similarityScore > client.threshold,
           score |-> similarityScore,
           mostMatchedFace |-> response.FaceMatches[1].Face,
           rawResponse |-> response]
  ELSE [hasMatch |-> FALSE,
        score |-> 0,
        rawResponse |-> response]

processResult(response) ==
  IF HasCandidates(response)
  THEN LET similarityScore == TopSimilarity(response)
       IN [hasMatch |-> similarityScore > 0,
           score |-> similarityScore,
           mostMatchedFace |-> response.FaceMatches[1].Face,
           rawResponse |-> response]
  ELSE [hasMatch |-> FALSE,
        score |-> 0,
        rawResponse |-> response]

\* ------------------------------------------------------------------------
\* Request construction

S3Image(name) == [S3Object |-> [Bucket |-> env.AWS_BUCKET_NAME, Name |-> name]]

BytesImage(bytes) == [Bytes |-> bytes]

\* Variant: the threshold literal of matchFace instead of this.threshold.
CompareInput_LiteralThreshold(source, target) ==
  [QualityFilter |-> QualityFilterHIGH,
   SourceImage |-> source,
   TargetImage |-> target,
   SimilarityThreshold |-> 98]

CompareInput(source, target) ==
  [QualityFilter |-> QualityFilterHIGH,
   SourceImage |-> source,
   TargetImage |-> target,
   SimilarityThreshold |-> client.threshold]

\* Variant: the two keys land in each other's slot.
S3ReferenceInput_Swapped(sourceReference, targetReference) ==
  CompareInput(S3Image(targetReference), S3Image(sourceReference))

S3ReferenceInput(sourceReference, targetReference) ==
  CompareInput(S3Image(sourceReference), S3Image(targetReference))

\* Variant: the source slot keeps an S3Object next to the bytes.
BytesInput_BothVariants(sourceBytes, referenceBytes) ==
  CompareInput([S3Object |-> [Bucket |-> env.AWS_BUCKET_NAME, Name |-> sourceBytes],
                Bytes |-> sourceBytes],
               BytesImage(referenceBytes))

BytesInput(sourceBytes, referenceBytes) ==
  CompareInput(BytesImage(sourceBytes), BytesImage(referenceBytes))

\* Variant: the target is sent as an object-store reference too.
MixInput_TargetAsReference(sourceReference, referenceBytes) ==
  CompareInput(S3Image(sourceReference), S3Image(referenceBytes))

MixInput(sourceReference, referenceBytes) ==
  CompareInput(S3Image(sourceReference), BytesImage(referenceBytes))

\* ------------------------------------------------------------------------
\* State machine

\* No instance yet and no compare operation started.
CoreIdle ==
  /\ client = None
  /\ pc = "idle"
  /\ op = "none"
  /\ args = <<>>
  /\ request = None
  /\ sends = 0
  /\ reply = None
  /\ logged = 0
  /\ outcome = None

\* No HTTP request received.
RouteIdle ==
  /\ httpRoute = "none"
  /\ httpBody = None
  /\ stage = "idle"
  /\ locals = None
  /\ fetch = None
  /\ callLog = <<>>
  /\ httpSent = <<>>

\* No direct processResult call.
NormIdle ==
  /\ nInput = None
  /\ nResults = <<>>

\* No concurrent invocation.
ConcIdle ==
  /\ inflight = <<>>

Init ==
  /\ env \in Envs
  /\ CoreIdle
  /\ RouteIdle
  /\ NormIdle
  /\ ConcIdle

\* new AWSRekognitionClient(threshold)
Construct(threshold) ==
  /\ client = None
  /\ client' = [threshold |-> threshold,
                rekognitionConfiguration |->
                  [region |-> env.AWS_REGION,
                   credentials |->
                     [accessKeyId |-> env.AWS_ACCESS_KEY_ID,
                      secretAccessKey |-> env.AWS_SECRET_ACCESS_KEY]]]
  /\ UNCHANGED <<env, pc, op, args, request, sends, reply, logged, outcome>>

\* The synchronous part of a compare operation: build the input, wrap it in
\* a CompareFacesCommand, hand it to rekognitionClient.send and suspend.
Start(name, a, input) ==
  /\ client # None
  /\ pc = "idle"
  /\ pc' = "awaitSend"
  /\ op' = name
  /\ args' = a
  /\ request' = input
  /\ sends' = 1
  /\ reply' = None
  /\ logged' = 0
  /\ outcome' = None
  /\ UNCHANGED <<env, client>>

compareFacesByS3Reference(sourceReference, targetReference) ==
  Start("compareFacesByS3Reference", <<sourceReference, targetReference>>,
        S3ReferenceInput(sourceReference, targetReference))

compareFacesByBytes(sourceBytes, referenceBytes) ==
  Start("compareFacesByBytes", <<sourceBytes, referenceBytes>>,
        BytesInput(sourceBytes, referenceBytes))

compareFacesMix(sourceReference, referenceBytes) ==
  Start("compareFacesMix", <<sourceReference, referenceBytes>>,
        MixInput(sourceReference, referenceBytes))

\* The remote service answers the pending call with a response.
ServiceResponds(response) ==
  /\ pc = "awaitSend"
  /\ pc' = "resume"
  /\ reply' = [kind |-> "response", value |-> response]
  /\ UNCHANGED <<env, client, op, args, request, sends, logged, outcome>>

\* The remote service call fails.
ServiceFails(error) ==
  /\ pc = "awaitSend"
  /\ pc' = "resume"
  /\ reply' = [kind |-> "error", value |-> error]
  /\ UNCHANGED <<env, client, op, args, request, sends, logged, outcome>>

\* `await` resumes with the response: return this.processResult(result)
ResumeResolved ==
  /\ pc = "resume"
  /\ reply.kind = "response"
  /\ pc' = "done"
  /\ logged' = logged + 1
  /\ outcome' = [kind |-> "fulfilled", value |-> processResult(reply.value)]
  /\ UNCHANGED <<env, client, op, args, request, sends, reply>>

\* Variant: a failed call is sent once more.
ResumeRejected_Retry ==
  /\ pc = "resume"
  /\ reply.kind = "error"
  /\ pc' = "awaitSend"
  /\ sends' = sends + 1
  /\ reply' = None
  /\ UNCHANGED <<env, client, op, args, request, logged, outcome>>

\* Variant: the failure is caught and an empty response is normalised.
ResumeRejected_Swallow ==
  /\ pc = "resume"
  /\ reply.kind = "error"
  /\ pc' = "done"
  /\ logged' = logged + 1
  /\ outcome' = [kind |-> "fulfilled", value |-> processResult([metadata |-> "200"])]
  /\ UNCHANGED <<env, client, op, args, request, sends, reply>>

\* `await` throws inside the operation; there is no try/catch, so the
\* operation's promise rejects with what was thrown.
ResumeRejected ==
  /\ pc = "resume"
  /\ reply.kind = "error"
  /\ pc' = "done"
  /\ outcome' = [kind |-> "rejected", value |-> reply.value]
  /\ UNCHANGED <<env, client, op, args, request, sends, reply, logged>>

\* The caller has taken the settled promise; the next invocation may start.
Return ==
  /\ pc = "done"
  /\ pc' = "idle"
  /\ UNCHANGED <<env, client, op, args, request, sends, reply, logged, outcome>>

\* The orchestrator used on its own: one instance, one compare operation at
\* a time, called directly.
Next ==
  \/ (\E t \in Thresholds : Construct(t))
       /\ UNCHANGED <<routeVars, normVars, concVars>>
  \/ (\E s \in Keys, t \in Keys : compareFacesByS3Reference(s, t))
       /\ UNCHANGED <<routeVars, normVars, concVars>>
  \/ (\E s \in ByteBuffers, t \in ByteBuffers : compareFacesByBytes(s, t))
       /\ UNCHANGED <<routeVars, normVars, concVars>>
  \/ (\E s \in Keys, t \in ByteBuffers : compareFacesMix(s, t))
       /\ UNCHANGED <<routeVars, normVars, concVars>>
  \/ (\E r \in Responses : ServiceResponds(r))
       /\ UNCHANGED <<routeVars, normVars, concVars>>
  \/ (\E e \in Errors : ServiceFails(e))
       /\ UNCHANGED <<routeVars, normVars, concVars>>
  \/ ResumeResolved /\ UNCHANGED <<routeVars, normVars, concVars>>
  \/ ResumeRejected /\ UNCHANGED <<routeVars, normVars, concVars>>
  \/ Return /\ UNCHANGED <<routeVars, normVars, concVars>>

Spec == Init /\ [][Next]_vars

\* ------------------------------------------------------------------------
\* processResult called directly, repeatedly, on one raw response

\* Number of direct processResult calls on the response.
MaxApplications == 2

InitNormalize ==
  /\ env \in Envs
  /\ CoreIdle
  /\ RouteIdle
  /\ nInput \in Responses
  /\ nResults = <<>>
  /\ ConcIdle

\* The caller lets go of the instance; the next call is made on another one.
DropInstance ==
  /\ client # None
  /\ client' = None
  /\ UNCHANGED <<env, pc, op, args, request, sends, reply, logged, outcome>>

\* client.processResult(response), as the unit tests call it.
Normalize ==
  /\ client # None
  /\ Len(nResults) < MaxApplications
  /\ logged' = logged + 1
  /\ nResults' = Append(nResults, [threshold |-> client.threshold,
                                   result |-> processResult(nInput)])
  /\ UNCHANGED <<env, client, pc, op, args, request, sends, reply, outcome, nInput>>

NextNormalize ==
  \/ (\E t \in Thresholds : Construct(t))
       /\ UNCHANGED <<routeVars, normVars, concVars>>
  \/ DropInstance /\ UNCHANGED <<routeVars, normVars, concVars>>
  \/ Normalize /\ UNCHANGED <<routeVars, concVars>>

SpecNormalize == InitNormalize /\ [][NextNormalize]_vars

\* ------------------------------------------------------------------------
\* Concurrent invocations of the compare operations

\* Number of compare invocations that may be in flight together.
MaxInFlight == 2

Invocations == 1..MaxInFlight

\* What the remote service answers in the concurrent runs.
ConcurrentResponses ==
  { [metadata |-> "200"],
    [metadata |-> "200", FaceMatches |-> <<[Similarity |-> 97, Face |-> "abc"]>>] }

ConcurrentErrors == {"NetworkError"}

InitConcurrent ==
  /\ env \in Envs
  /\ CoreIdle
  /\ RouteIdle
  /\ NormIdle
  /\ inflight = [c \in Invocations |-> [pc |-> "idle"]]

\* The synchronous part of invocation c: the input is built from the
\* arguments and from `this`, sent, and the invocation suspends. `self` is
\* the instance the operation was called on.
InvokeConcurrent(c, name, a, input) ==
  /\ client # None
  /\ inflight[c].pc = "idle"
  /\ inflight' = [inflight EXCEPT ![c] =
                    [pc |-> "awaitSend", op |-> name, args |-> a, self |-> client,
                     request |-> input, sends |-> 1, reply |-> None, outcome |-> None]]
  /\ UNCHANGED <<coreVars, routeVars, normVars>>

\* The promise of invocation c's send call resolves.
RespondConcurrent(c, response) ==
  /\ inflight[c].pc = "awaitSend"
  /\ inflight' = [inflight EXCEPT ![c].pc = "resume",
                                  ![c].reply = [kind |-> "response", value |-> response]]
  /\ UNCHANGED <<coreVars, routeVars, normVars>>

\* The promise of invocation c's send call rejects.
FailConcurrent(c, error) ==
  /\ inflight[c].pc = "awaitSend"
  /\ inflight' = [inflight EXCEPT ![c].pc = "resume",
                                  ![c].reply = [kind |-> "error", value |-> error]]
  /\ UNCHANGED <<coreVars, routeVars, normVars>>

\* Variant: the awaited result is parked in a field shared by all
\* invocations and read back from there.
ResumeResolvedConcurrent_SharedField(c) ==
  /\ inflight[c].pc = "resume"
  /\ inflight[c].reply.kind = "response"
  /\ LET last == CHOOSE d \in Invocations :
                   /\ inflight[d].pc = "resume"
                   /\ inflight[d].reply.kind = "response"
                   /\ \A e \in Invocations :
                        (inflight[e].pc = "resume" /\ inflight[e].reply.kind = "response")
                          => d >= e
     IN inflight' = [inflight EXCEPT ![c].pc = "done",
                       ![c].outcome = [kind |-> "fulfilled",
                                       value |-> processResult(inflight[last].reply.value)]]
  /\ UNCHANGED <<coreVars, routeVars, normVars>>

\* Invocation c resumes with its local `result`: return this.processResult(result)
ResumeResolvedConcurrent(c) ==
  /\ inflight[c].pc = "resume"
  /\ inflight[c].reply.kind = "response"
  /\ inflight' = [inflight EXCEPT ![c].pc = "done",
                    ![c].outcome = [kind |-> "fulfilled",
                                    value |-> processResult(inflight[c].reply.value)]]
  /\ UNCHANGED <<coreVars, routeVars, normVars>>

\* Invocation c resumes by throwing; its promise rejects.
ResumeRejectedConcurrent(c) ==
  /\ inflight[c].pc = "resume"
  /\ inflight[c].reply.kind = "error"
  /\ inflight' = [inflight EXCEPT ![c].pc = "done",
                    ![c].outcome = [kind |-> "rejected", value |-> inflight[c].reply.value]]
  /\ UNCHANGED <<coreVars, routeVars, normVars>>

NextConcurrent ==
  \/ (\E t \in Thresholds : Construct(t))
       /\ UNCHANGED <<routeVars, normVars, concVars>>
  \/ DropInstance /\ UNCHANGED <<routeVars, normVars, concVars>>
  \/ \E c \in Invocations :
       InvokeConcurrent(c, "compareFacesByS3Reference", <<"srcKey", "targetKey">>,
                        S3ReferenceInput("srcKey", "targetKey"))
  \/ \E c \in Invocations :
       InvokeConcurrent(c, "compareFacesByBytes", <<"bytesA", "bytesB">>,
                        BytesInput("bytesA", "bytesB"))
  \/ \E c \in Invocations :
       InvokeConcurrent(c, "compareFacesMix", <<"srcKey", "bytesB">>,
                        MixInput("srcKey", "bytesB"))
  \/ \E c \in Invocations, r \in ConcurrentResponses : RespondConcurrent(c, r)
  \/ \E c \in Invocations, e \in ConcurrentErrors : FailConcurrent(c, e)
  \/ \E c \in Invocations : ResumeResolvedConcurrent(c)
  \/ \E c \in Invocations : ResumeRejectedConcurrent(c)

SpecConcurrent == InitConcurrent /\ [][NextConcurrent]_vars

\* ------------------------------------------------------------------------
\* The HTTP routes: POST /raw (matchFace) and POST /combined

\* A string the routes take apart is a sequence of tokens; ".com/" is the
\* token the /combined handler splits on.
ComSeparator == ".com/"

SourceUrl == <<"https://faces.s3.amazonaws", ComSeparator, "srcKey">>
TargetUrl == <<"https://faces.s3.amazonaws", ComSeparator, "targetKey">>
OtherUrl == <<"https://example.org/face.jpg">>

Urls == {SourceUrl, TargetUrl, OtherUrl}

\* req.body of POST /combined; either URL may be missing from the body.
CombinedBodies ==
  [srcImageUrl : Urls, targetImageUrl : Urls]
    \cup [srcImageUrl : Urls] \cup [targetImageUrl : Urls]

\* req.body of POST /raw.
RawBodies == [referenceImage : Keys, srcImage : Keys]

\* response.data of axios.get: the image bytes.
Payloads == {<<255, 216, 255>>, <<137, 80>>}

\* What the remote service answers to the comparisons of /combined.
CombinedResponses ==
  { [metadata |-> "200"],
    [metadata |-> "200", FaceMatches |-> <<[Similarity |-> 100, Face |-> "abc"]>>],
    [metadata |-> "200", FaceMatches |-> <<[Similarity |-> 0, Face |-> Undefined]>>] }

\* What axios.get rejects with.
FetchErrors == {"AxiosError"}

\* (err as Error).message
Message(error) ==
  CASE error = "NetworkError" -> "socket hang up"
    [] error = "ThrottlingException" -> "Rate exceeded"
    [] error = "AxiosError" -> "Request failed with status code 404"
    [] error = "TypeError" -> "Cannot read properties of undefined (reading 'split')"

\* String.prototype.split on a separator token.
RECURSIVE Split(_, _)
Split(str, separator) ==
  IF \E i \in 1..Len(str) : str[i] = separator
  THEN LET first == CHOOSE i \in 1..Len(str) :
                      /\ str[i] = separator
                      /\ \A j \in 1..(i - 1) : str[j] # separator
       IN <<SubSeq(str, 1, first - 1)>> \o Split(SubSeq(str, first + 1, Len(str)), separator)
  ELSE <<str>>

\* array[index] with a JavaScript (0-based) index; undefined past the end.
ElementAt(array, index) ==
  IF index + 1 <= Len(array) THEN array[index + 1] ELSE Undefined

\* '=' in a base64 string; the 64 other characters are the values 0..63.
Base64Pad == 64

\* Buffer.toString('base64')
RECURSIVE Base64Encode(_)
Base64Encode(bytes) ==
  IF Len(bytes) = 0 THEN <<>>
  ELSE IF Len(bytes) = 1
    THEN <<bytes[1] \div 4, (bytes[1] % 4) * 16, Base64Pad, Base64Pad>>
  ELSE IF Len(bytes) = 2
    THEN <<bytes[1] \div 4, (bytes[1] % 4) * 16 + bytes[2] \div 16,
           (bytes[2] % 16) * 4, Base64Pad>>
  ELSE <<bytes[1] \div 4, (bytes[1] % 4) * 16 + bytes[2] \div 16,
         (bytes[2] % 16) * 4 + bytes[3] \div 64, bytes[3] % 64>>
         \o Base64Encode(SubSeq(bytes, 4, Len(bytes)))

\* Buffer.from(string, 'base64')
RECURSIVE Base64Decode(_)
Base64Decode(chars) ==
  IF Len(chars) < 4 THEN <<>>
  ELSE LET first == <<chars[1] * 4 + chars[2] \div 16>>
           second == IF chars[3] = Base64Pad THEN <<>>
                     ELSE <<(chars[2] % 16) * 16 + chars[3] \div 4>>
           third == IF chars[3] = Base64Pad \/ chars[4] = Base64Pad THEN <<>>
                    ELSE <<(chars[3] % 4) * 64 + chars[4]>>
       IN first \o second \o third \o Base64Decode(SubSeq(chars, 5, Len(chars)))

\* What convertToBase64 returns for the fetched data.
convertToBase64Result(data) ==
  LET stringifiedBase64 == Base64Encode(data)
  IN [base64String |-> stringifiedBase64,
      base64Buffer |-> Base64Decode(stringifiedBase64)]

\* Properties that hold a face descriptor; JSON.stringify leaves out a
\* property whose value is undefined.
FaceProperties == {"mostMatchedFace", "mostSignificantMatch"}

\* res.json(object): the serialised object as the client parses it.
Json(object) ==
  [f \in {g \in DOMAIN object : ~(g \in FaceProperties /\ object[g] = Undefined)}
     |-> object[f]]

\* The literal threshold of matchFace.
MatchFaceThreshold == 98

\* The input matchFace(referenceImage, sourceImage) builds.
MatchFaceInput(referenceImage, sourceImage) ==
  [QualityFilter |-> QualityFilterHIGH,
   SourceImage |-> S3Image(sourceImage),
   TargetImage |-> S3Image(referenceImage),
   SimilarityThreshold |-> MatchFaceThreshold]

\* The `{}` the /raw route reports when there is no candidate.
EmptyObject == "{}"

\* The object the /raw route hands to res.json. A score that is undefined
\* (the top candidate has no Similarity) is a missing field here.
RawResult(response) ==
  LET length == IF "FaceMatches" \in DOMAIN response
                THEN Len(response.FaceMatches) ELSE 0
      rest == [hasMatch |-> length > 0,
               mostSignificantMatch |->
                 IF length # 0 THEN response.FaceMatches[1].Face ELSE EmptyObject]
  IN IF length > 0
     THEN IF "Similarity" \in DOMAIN response.FaceMatches[1]
          THEN [score |-> response.FaceMatches[1].Similarity] @@ rest
          ELSE rest
     ELSE [score |-> 0] @@ rest

\* Variant: the README's fixed error text instead of the error's message.
ErrorResponse_FixedText(error) ==
  [status |-> 500, body |-> [error |-> "Internal server error"]]

\* Variant: the results computed before the failure are reported with it.
ErrorResponse_WithPartialResults(error) ==
  [status |-> 500,
   body |-> [error |-> Message(error)]
              @@ [f \in DOMAIN locals \cap {"s3ReferenceResponse", "bytesResponse"}
                    |-> Json(locals[f])]]

\* The catch block of both routes.
ErrorResponse(error) ==
  [status |-> 500, body |-> [error |-> Message(error)]]

\* The score above which /combined reports shouldGive.
ShouldGiveScore == 99

\* The 200 response of /combined.
CombinedResponse(s3ReferenceResponse, bytesResponse, mixResponse) ==
  [status |-> 200,
   body |-> [shouldGive |-> s3ReferenceResponse.score > ShouldGiveScore,
             s3ReferenceResponse |-> Json(s3ReferenceResponse),
             bytesResponse |-> Json(bytesResponse),
             mixResponse |-> Json(mixResponse)]]

\* The threshold /combined constructs its orchestrator with.
CombinedThreshold == 98

\* Variant: the bytes comparison is made before the reference comparison.
ComparisonOrder_BytesFirst ==
  <<"compareFacesByBytes", "compareFacesByS3Reference", "compareFacesMix">>

\* The comparisons of /combined in program order.
ComparisonOrder ==
  <<"compareFacesByS3Reference", "compareFacesByBytes", "compareFacesMix">>

\* The local constant a comparison's result is assigned to.
LocalOf(name) ==
  CASE name = "compareFacesByS3Reference" -> "s3ReferenceResponse"
    [] name = "compareFacesByBytes" -> "bytesResponse"
    [] name = "compareFacesMix" -> "mixResponse"

\* Number of comparisons the handler has issued.
Issued == Cardinality({i \in DOMAIN callLog : callLog[i].kind = "compare"})

\* The last logged call gets its result.
Settle(log, result) == [log EXCEPT ![Len(log)] = result @@ log[Len(log)]]

InitRoutes ==
  /\ env \in Envs
  /\ CoreIdle
  /\ RouteIdle
  /\ NormIdle
  /\ ConcIdle

\* POST /raw arrives: the handler calls matchFace, which builds its input,
\* makes a client, sends the command and suspends.
RawReceived(body) ==
  /\ httpRoute = "none"
  /\ httpRoute' = "/raw"
  /\ httpBody' = body
  /\ stage' = "matchFace"
  /\ pc' = "awaitSend"
  /\ op' = "matchFace"
  /\ args' = <<body.referenceImage, body.srcImage>>
  /\ request' = MatchFaceInput(body.referenceImage, body.srcImage)
  /\ sends' = 1
  /\ reply' = None
  /\ logged' = 0
  /\ outcome' = None
  /\ callLog' = <<[kind |-> "compare", call |-> "matchFace", result |-> "pending"]>>
  /\ UNCHANGED <<env, client, locals, fetch, httpSent>>

\* matchFace returns the raw response; the handler answers 200.
matchFaceResolved ==
  /\ stage = "matchFace"
  /\ pc = "resume"
  /\ reply.kind = "response"
  /\ pc' = "done"
  /\ outcome' = [kind |-> "fulfilled", value |-> reply.value]
  /\ callLog' = Settle(callLog, [result |-> "ok"])
  /\ httpSent' = Append(httpSent, [status |-> 200, body |-> Json(RawResult(reply.value))])
  /\ stage' = "responded"
  /\ UNCHANGED <<env, client, op, args, request, sends, reply, logged,
                 httpRoute, httpBody, locals, fetch>>

\* matchFace throws; the handler's catch answers 500.
matchFaceRejected ==
  /\ stage = "matchFace"
  /\ pc = "resume"
  /\ reply.kind = "error"
  /\ pc' = "done"
  /\ outcome' = [kind |-> "rejected", value |-> reply.value]
  /\ callLog' = Settle(callLog, [result |-> "failed", error |-> reply.value])
  /\ httpSent' = Append(httpSent, ErrorResponse(reply.value))
  /\ stage' = "responded"
  /\ UNCHANGED <<env, client, op, args, request, sends, reply, logged,
                 httpRoute, httpBody, locals, fetch>>

\* POST /combined arrives with both URLs: the handler splits them, makes
\* its orchestrator and starts fetching the source image.
CombinedReceived(body) ==
  /\ httpRoute = "none"
  /\ {"srcImageUrl", "targetImageUrl"} \subseteq DOMAIN body
  /\ httpRoute' = "/combined"
  /\ httpBody' = body
  /\ locals' = [sourceReference |-> ElementAt(Split(body.srcImageUrl, ComSeparator), 1),
                targetReference |-> ElementAt(Split(body.targetImageUrl, ComSeparator), 1)]
  /\ Construct(CombinedThreshold)
  /\ fetch' = [url |-> body.srcImageUrl, state |-> "pending"]
  /\ callLog' = <<[kind |-> "fetch", call |-> "fetchSource", result |-> "pending"]>>
  /\ stage' = "fetchSource"
  /\ UNCHANGED httpSent

\* POST /combined arrives without one of the URLs: split is called on
\* undefined, which throws inside the try block.
CombinedThrows(body) ==
  /\ httpRoute = "none"
  /\ ~({"srcImageUrl", "targetImageUrl"} \subseteq DOMAIN body)
  /\ httpRoute' = "/combined"
  /\ httpBody' = body
  /\ httpSent' = Append(httpSent, ErrorResponse("TypeError"))
  /\ stage' = "responded"
  /\ UNCHANGED <<coreVars, locals, fetch, callLog>>

\* axios.get resolves with the image bytes.
AxiosResolves(data) ==
  /\ fetch # None
  /\ fetch.state = "pending"
  /\ fetch' = [url |-> fetch.url, state |-> "resolved", data |-> data]
  /\ UNCHANGED <<coreVars, httpRoute, httpBody, stage, locals, callLog, httpSent>>

\* axios.get rejects.
AxiosRejects(error) ==
  /\ fetch # None
  /\ fetch.state = "pending"
  /\ fetch' = [url |-> fetch.url, state |-> "rejected", error |-> error]
  /\ UNCHANGED <<coreVars, httpRoute, httpBody, stage, locals, callLog, httpSent>>

\* convertToBase64(srcImageUrl) returns; the handler starts fetching the
\* target image.
SourceFetched ==
  /\ stage = "fetchSource"
  /\ fetch.state = "resolved"
  /\ locals' = [sourceBytes |-> convertToBase64Result(fetch.data).base64Buffer] @@ locals
  /\ callLog' = Append(Settle(callLog, [result |-> "ok"]),
                       [kind |-> "fetch", call |-> "fetchTarget", result |-> "pending"])
  /\ fetch' = [url |-> httpBody.targetImageUrl, state |-> "pending"]
  /\ stage' = "fetchTarget"
  /\ UNCHANGED <<coreVars, httpRoute, httpBody, httpSent>>

\* convertToBase64(targetImageUrl) returns; the comparisons come next.
TargetFetched ==
  /\ stage = "fetchTarget"
  /\ fetch.state = "resolved"
  /\ locals' = [targetBytes |-> convertToBase64Result(fetch.data).base64Buffer] @@ locals
  /\ callLog' = Settle(callLog, [result |-> "ok"])
  /\ fetch' = None
  /\ stage' = "callCompare"
  /\ UNCHANGED <<coreVars, httpRoute, httpBody, httpSent>>

\* Variant: convertToBase64 swallows the failure and hands back an empty
\* buffer, so the handler carries on.
convertToBase64Rejected_EmptyBuffer ==
  /\ stage \in {"fetchSource", "fetchTarget"}
  /\ fetch.state = "rejected"
  /\ locals' = [f \in {IF stage = "fetchSource" THEN "sourceBytes" ELSE "targetBytes"}
                  |-> <<>>] @@ locals
  /\ IF stage = "fetchSource"
     THEN /\ callLog' = Append(Settle(callLog, [result |-> "failed", error |-> fetch.error]),
                               [kind |-> "fetch", call |-> "fetchTarget", result |-> "pending"])
          /\ fetch' = [url |-> httpBody.targetImageUrl, state |-> "pending"]
          /\ stage' = "fetchTarget"
     ELSE /\ callLog' = Settle(callLog, [result |-> "failed", error |-> fetch.error])
          /\ fetch' = None
          /\ stage' = "callCompare"
  /\ UNCHANGED <<coreVars, httpRoute, httpBody, httpSent>>

\* convertToBase64 throws what axios.get rejected with; the handler's catch
\* answers 500.
convertToBase64Rejected ==
  /\ stage \in {"fetchSource", "fetchTarget"}
  /\ fetch.state = "rejected"
  /\ callLog' = Settle(callLog, [result |-> "failed", error |-> fetch.error])
  /\ httpSent' = Append(httpSent, ErrorResponse(fetch.error))
  /\ fetch' = None
  /\ stage' = "responded"
  /\ UNCHANGED <<coreVars, httpRoute, httpBody, locals>>

\* The handler calls the next comparison of its program order and suspends
\* on it.
IssueComparison ==
  /\ stage = "callCompare"
  /\ LET name == ComparisonOrder[Issued + 1]
     IN /\ \/ /\ name = "compareFacesByS3Reference"
              /\ compareFacesByS3Reference(locals.sourceReference, locals.targetReference)
           \/ /\ name = "compareFacesByBytes"
              /\ compareFacesByBytes(locals.sourceBytes, locals.targetBytes)
           \/ /\ name = "compareFacesMix"
              /\ compareFacesMix(locals.sourceReference, locals.targetBytes)
        /\ callLog' = Append(callLog, [kind |-> "compare", call |-> name, result |-> "pending"])
  /\ stage' = "awaitCompare"
  /\ UNCHANGED <<httpRoute, httpBody, locals, fetch, httpSent>>

\* The awaited comparison returned: its result is assigned, and after the
\* last one the handler answers 200.
ComparisonReturned ==
  /\ stage = "awaitCompare"
  /\ Return
  /\ outcome.kind = "fulfilled"
  /\ LET assigned == [f \in {LocalOf(op)} |-> outcome.value] @@ locals
     IN /\ locals' = assigned
        /\ IF Issued = Len(ComparisonOrder)
           THEN /\ httpSent' = Append(httpSent,
                                      CombinedResponse(assigned.s3ReferenceResponse,
                                                       assigned.bytesResponse,
                                                       assigned.mixResponse))
                /\ stage' = "responded"
           ELSE /\ httpSent' = httpSent
                /\ stage' = "callCompare"
  /\ callLog' = Settle(callLog, [result |-> "ok"])
  /\ UNCHANGED <<httpRoute, httpBody, fetch>>

\* The awaited comparison threw; the handler's catch answers 500.
ComparisonThrew ==
  /\ stage = "awaitCompare"
  /\ Return
  /\ outcome.kind = "rejected"
  /\ callLog' = Settle(callLog, [result |-> "failed", error |-> outcome.value])
  /\ httpSent' = Append(httpSent, ErrorResponse(outcome.value))
  /\ stage' = "responded"
  /\ UNCHANGED <<httpRoute, httpBody, locals, fetch>>

NextRoutes ==
  \/ (\E body \in RawBodies : RawReceived(body)) /\ UNCHANGED <<normVars, concVars>>
  \/ (\E r \in Responses : stage = "matchFace" /\ ServiceResponds(r))
       /\ UNCHANGED <<routeVars, normVars, concVars>>
  \/ (\E e \in Errors : stage = "matchFace" /\ ServiceFails(e))
       /\ UNCHANGED <<routeVars, normVars, concVars>>
  \/ matchFaceResolved /\ UNCHANGED <<normVars, concVars>>
  \/ matchFaceRejected /\ UNCHANGED <<normVars, concVars>>
  \/ (\E body \in CombinedBodies : CombinedReceived(body)) /\ UNCHANGED <<normVars, concVars>>
  \/ (\E body \in CombinedBodies : CombinedThrows(body)) /\ UNCHANGED <<normVars, concVars>>
  \/ (\E data \in Payloads : AxiosResolves(data)) /\ UNCHANGED <<normVars, concVars>>
  \/ (\E e \in FetchErrors : AxiosRejects(e)) /\ UNCHANGED <<normVars, concVars>>
  \/ SourceFetched /\ UNCHANGED <<normVars, concVars>>
  \/ TargetFetched /\ UNCHANGED <<normVars, concVars>>
  \/ convertToBase64Rejected /\ UNCHANGED <<normVars, concVars>>
  \/ IssueComparison /\ UNCHANGED <<normVars, concVars>>
  \/ (\E r \in CombinedResponses : stage = "awaitCompare" /\ ServiceResponds(r))
       /\ UNCHANGED <<routeVars, normVars, concVars>>
  \/ (\E e \in Errors : stage = "awaitCompare" /\ ServiceFails(e))
       /\ UNCHANGED <<routeVars, normVars, concVars>>
  \/ (stage = "awaitCompare" /\ ResumeResolved)
       /\ UNCHANGED <<routeVars, normVars, concVars>>
  \/ (stage = "awaitCompare" /\ ResumeRejected)
       /\ UNCHANGED <<routeVars, normVars, concVars>>
  \/ ComparisonReturned /\ UNCHANGED <<normVars, concVars>>
  \/ ComparisonThrew /\ UNCHANGED <<normVars, concVars>>

SpecRoutes == InitRoutes /\ [][NextRoutes]_vars

\* ------------------------------------------------------------------------
\* Properties

\* The operation's promise is fulfilled with a MatchResponse.
Fulfilled == "kind" \in DOMAIN outcome /\ outcome.kind = "fulfilled"

\* The operation's promise is rejected.
Rejected == "kind" \in DOMAIN outcome /\ outcome.kind = "rejected"

\* The raw response that the fulfilled operation normalised.
Raw == reply.value

\* FaceMatches is there and has at least one entry.
NonEmptyMatches(response) ==
  "FaceMatches" \in DOMAIN response /\ Len(response.FaceMatches) > 0

\* The top candidate carries a similarity strictly greater than 0.
TopPositive(response) ==
  /\ NonEmptyMatches(response)
  /\ "Similarity" \in DOMAIN response.FaceMatches[1]
  /\ response.FaceMatches[1].Similarity > 0

\* A property is there and is not undefined.
Present(record, field) ==
  field \in DOMAIN record /\ record[field] # Undefined

\* C1: processResult returns hasMatch = true exactly when FaceMatches is
\* present, non-empty and FaceMatches[0].Similarity is strictly greater
\* than 0; a top similarity of exactly 0 gives hasMatch = false.
C1_HasMatchIffTopPositive ==
  Fulfilled => (outcome.value.hasMatch <=> TopPositive(Raw))

C1_Witness ==
  /\ Fulfilled
  /\ NonEmptyMatches(Raw)
  /\ "Similarity" \in DOMAIN Raw.FaceMatches[1]
  /\ Raw.FaceMatches[1].Similarity = 0
  /\ ~outcome.value.hasMatch

\* C2: in every MatchResponse returned by processResult, mostMatchedFace is
\* present exactly when hasMatch is true.
C2_FacePresentIffHasMatch ==
  Fulfilled => (Present(outcome.value, "mostMatchedFace") <=> outcome.value.hasMatch)

\* C3: when the index-0 similarity s is > 0 the result is hasMatch = true,
\* score = s and mostMatchedFace = the index-0 face, whatever the later
\* candidates are.
C3_TopCandidateReported ==
  (Fulfilled /\ TopPositive(Raw)) =>
    /\ outcome.value.hasMatch
    /\ outcome.value.score = Raw.FaceMatches[1].Similarity
    /\ outcome.value.mostMatchedFace = Raw.FaceMatches[1].Face

C3_Witness ==
  /\ Fulfilled
  /\ TopPositive(Raw)
  /\ Len(Raw.FaceMatches) = 2
  /\ "Similarity" \in DOMAIN Raw.FaceMatches[2]
  /\ Raw.FaceMatches[2].Similarity > Raw.FaceMatches[1].Similarity
  /\ Raw.FaceMatches[2].Face # Raw.FaceMatches[1].Face
  /\ outcome.value.score = Raw.FaceMatches[1].Similarity
  /\ outcome.value.mostMatchedFace = Raw.FaceMatches[1].Face

\* C4: an empty FaceMatches list and an absent FaceMatches field give the
\* same result: hasMatch = false, score = 0 and no mostMatchedFace.
C4_EmptyAndAbsentAlike ==
  (Fulfilled /\ ~NonEmptyMatches(Raw)) =>
    outcome.value = [hasMatch |-> FALSE, score |-> 0, rawResponse |-> Raw]

C4_Witness ==
  /\ Fulfilled
  /\ "FaceMatches" \in DOMAIN Raw
  /\ Len(Raw.FaceMatches) = 0
  /\ ~outcome.value.hasMatch
  /\ outcome.value.score = 0
  /\ "mostMatchedFace" \notin DOMAIN outcome.value

\* C5: every invocation of a compare operation has called
\* rekognitionClient.send exactly once, whether the call is pending, has
\* succeeded or has failed.
C5_ExactlyOneSend ==
  (op # "none") => (sends = 1)

C5_Witness ==
  /\ pc = "done"
  /\ Rejected
  /\ sends = 1

\* C6: when the remote call raises an error the operation rejects with that
\* same error and processResult has not run for that call.
C6_ErrorPropagatesUnchanged ==
  (pc = "done" /\ reply.kind = "error") =>
    /\ outcome = [kind |-> "rejected", value |-> reply.value]
    /\ logged = 0

C6_Witness ==
  /\ pc = "done"
  /\ reply.kind = "error"
  /\ reply.value = "NetworkError"
  /\ Rejected
  /\ outcome.value = "NetworkError"

\* C7: compareFacesByS3Reference(sourceKey, targetKey) sends one request
\* whose two images are object-store references in the configured bucket,
\* Name = sourceKey in the source slot and Name = targetKey in the target
\* slot, and returns processResult of the response to it.
C7_S3ReferenceRequest ==
  (op = "compareFacesByS3Reference") =>
    /\ sends = 1
    /\ request.SourceImage =
         [S3Object |-> [Bucket |-> env.AWS_BUCKET_NAME, Name |-> args[1]]]
    /\ request.TargetImage =
         [S3Object |-> [Bucket |-> env.AWS_BUCKET_NAME, Name |-> args[2]]]
    /\ (pc = "done" /\ reply.kind = "response") =>
         /\ Fulfilled
         /\ outcome.value = processResult(reply.value)

C7_Witness ==
  /\ op = "compareFacesByS3Reference"
  /\ args = <<"srcKey", "targetKey">>
  /\ pc = "done"
  /\ Fulfilled
  /\ outcome.value.hasMatch
  /\ outcome.value.score = 97
  /\ outcome.value.mostMatchedFace = "abc"

\* C8: compareFacesMix(sourceKey, targetBytes) sends one request whose
\* source image is an object-store reference to sourceKey and whose target
\* image is the inline bytes targetBytes.
C8_MixRequest ==
  (op = "compareFacesMix") =>
    /\ sends = 1
    /\ request.SourceImage =
         [S3Object |-> [Bucket |-> env.AWS_BUCKET_NAME, Name |-> args[1]]]
    /\ request.TargetImage = [Bytes |-> args[2]]

C8_Witness ==
  /\ op = "compareFacesMix"
  /\ args = <<"srcKey", "bytesB">>
  /\ pc = "awaitSend"
  /\ sends = 1
  /\ "Bytes" \in DOMAIN request.TargetImage

\* The request in flight carries the instance's threshold and HIGH.
RequestCarriesPolicy ==
  (request # None) =>
    /\ request.SimilarityThreshold = client.threshold
    /\ request.QualityFilter = "HIGH"

\* Once constructed, the instance's threshold never changes.
ThresholdFixed ==
  (client # None) => (client' # None /\ client'.threshold = client.threshold)

\* C9: every request sent by a compare operation carries the
\* SimilarityThreshold given to the constructor and QualityFilter = HIGH,
\* and no operation changes the threshold.
C9_PolicyFixedAtConstruction ==
  []RequestCarriesPolicy /\ [][ThresholdFixed]_vars

C9_Witness ==
  /\ client # None
  /\ client.threshold = 80
  /\ pc = "done"
  /\ request.SimilarityThreshold = 80
  /\ request.QualityFilter = "HIGH"

\* An image slot has exactly one of its two variants.
ExactlyOneVariant(image) ==
  ("S3Object" \in DOMAIN image) # ("Bytes" \in DOMAIN image)

\* C10: in every request each image slot holds exactly one variant, an
\* object-store reference or inline bytes; compareFacesByBytes puts inline
\* bytes in both slots.
C10_OneVariantPerImage ==
  (request # None) =>
    /\ ExactlyOneVariant(request.SourceImage)
    /\ ExactlyOneVariant(request.TargetImage)
    /\ (op = "compareFacesByBytes") =>
         /\ request.SourceImage = [Bytes |-> args[1]]
         /\ request.TargetImage = [Bytes |-> args[2]]

C10_Witness ==
  /\ op = "compareFacesByBytes"
  /\ pc = "awaitSend"
  /\ args = <<"bytesA", "bytesB">>
  /\ request.SourceImage = [Bytes |-> "bytesA"]
  /\ request.TargetImage = [Bytes |-> "bytesB"]

\* Region, credential pair and bucket name are all set.
Configured(e) ==
  /\ e.AWS_REGION # Undefined
  /\ e.AWS_ACCESS_KEY_ID # Undefined
  /\ e.AWS_SECRET_ACCESS_KEY # Undefined
  /\ e.AWS_BUCKET_NAME # Undefined

\* C13: with region, access key id, secret access key or bucket name absent
\* construction fails, so no instance exists and no service call is issued
\* with missing configuration.
C13_NoInstanceWithoutConfiguration ==
  (client # None \/ sends > 0) => Configured(env)

OwnAnswer(c) ==
  (inflight[c].pc = "done") =>
    /\ inflight[c].sends = 1
    /\ inflight[c].request.SimilarityThreshold = inflight[c].self.threshold
    /\ IF inflight[c].reply.kind = "response"
       THEN inflight[c].outcome =
              [kind |-> "fulfilled", value |-> processResult(inflight[c].reply.value)]
       ELSE inflight[c].outcome =
              [kind |-> "rejected", value |-> inflight[c].reply.value]

\* A step of one invocation touches that invocation only: not another
\* invocation, not the instance, not the environment.
IsolatedStep ==
  (inflight' # inflight) =>
    /\ client' = client
    /\ env' = env
    /\ Cardinality({c \in Invocations : inflight'[c] # inflight[c]}) = 1

\* C17: for any interleaving of in-flight compare operations each
\* invocation returns processResult of the response to its own request,
\* and no invocation changes state that another one reads.
C17_InvocationsIsolated ==
  [](\A c \in DOMAIN inflight : OwnAnswer(c)) /\ [][IsolatedStep]_vars

C17_Witness ==
  /\ inflight[1].pc = "resume"
  /\ inflight[1].reply.kind = "response"
  /\ inflight[2].pc = "done"
  /\ inflight[2].reply.kind = "response"
  /\ inflight[2].reply.value # inflight[1].reply.value
  /\ inflight[2].self # inflight[1].self
  /\ inflight[2].outcome.value.rawResponse = inflight[2].reply.value

\* The three result fields of a /combined response.
ResultFields == {"s3ReferenceResponse", "bytesResponse", "mixResponse"}

\* Some logged call of the given kinds has failed.
SomeFailed(kinds) ==
  \E i \in DOMAIN callLog : callLog[i].kind \in kinds /\ callLog[i].result = "failed"

\* C11: in POST /combined, if any one of the three comparisons fails the
\* response is an error response and contains none of s3ReferenceResponse,
\* bytesResponse and mixResponse, also for comparisons that had succeeded.
C11_CombinedFailsAsAWhole ==
  (httpRoute = "/combined" /\ SomeFailed({"compare"})) =>
    /\ Len(httpSent) = 1
    /\ httpSent[1].status = 500
    /\ "error" \in DOMAIN httpSent[1].body
    /\ DOMAIN httpSent[1].body \cap ResultFields = {}

C11_Witness ==
  /\ httpRoute = "/combined"
  /\ Len(callLog) = 4
  /\ callLog[3].result = "ok"
  /\ callLog[4].result = "failed"
  /\ "s3ReferenceResponse" \in DOMAIN locals
  /\ locals.s3ReferenceResponse.hasMatch
  /\ Len(httpSent) = 1
  /\ DOMAIN httpSent[1].body = {"error"}

RawAnswered ==
  /\ httpRoute = "/raw"
  /\ Len(httpSent) = 1
  /\ httpSent[1].status = 200

\* C14: for every raw service response the hasMatch and score that /raw
\* reports equal the hasMatch and score processResult computes for it.
C14_RawVerdictIsProcessResult ==
  RawAnswered =>
    /\ httpSent[1].body.hasMatch = processResult(reply.value).hasMatch
    /\ "score" \in DOMAIN httpSent[1].body
    /\ httpSent[1].body.score = processResult(reply.value).score

\* C15: every 200 response of POST /raw carries hasMatch, score and
\* mostSignificantMatch, and mostSignificantMatch is the index-0 face when
\* the list is non-empty and an empty object otherwise.
C15_RawResponseHasAllFields ==
  RawAnswered =>
    /\ {"hasMatch", "score", "mostSignificantMatch"} \subseteq DOMAIN httpSent[1].body
    /\ httpSent[1].body.mostSignificantMatch =
         IF NonEmptyMatches(reply.value)
         THEN reply.value.FaceMatches[1].Face
         ELSE EmptyObject

\* The external calls of a successful /combined request, in order.
ExpectedCalls ==
  <<"fetchSource", "fetchTarget",
    "compareFacesByS3Reference", "compareFacesByBytes", "compareFacesMix">>

\* External calls of the request that are in flight.
InFlight ==
  (IF fetch # None /\ fetch.state = "pending" THEN 1 ELSE 0)
    + (IF pc = "awaitSend" THEN 1 ELSE 0)

\* C18: within one POST /combined request the external calls are issued in
\* the order fetch source, fetch target, compare by S3 reference, compare
\* by bytes, compare mixed, each after the previous one has returned, with
\* at most one in flight; a successful request issues exactly these five.
C18_CombinedSequential ==
  (httpRoute = "/combined") =>
    /\ Len(callLog) <= Len(ExpectedCalls)
    /\ \A i \in DOMAIN callLog : callLog[i].call = ExpectedCalls[i]
    /\ \A i \in DOMAIN callLog : (i < Len(callLog)) => (callLog[i].result = "ok")
    /\ InFlight <= 1
    /\ (\E k \in DOMAIN httpSent : httpSent[k].status = 200) =>
         /\ Len(callLog) = 5
         /\ \A i \in DOMAIN callLog : callLog[i].result = "ok"
         /\ InFlight = 0

C18_Witness ==
  /\ httpRoute = "/combined"
  /\ Len(httpSent) = 1
  /\ httpSent[1].status = 200
  /\ Len(callLog) = 5
  /\ callLog[5].call = "compareFacesMix"
  /\ sends = 1

\* Failure ends the request: the failed call is the last one, nothing is in
\* flight and one response has been sent.
StoppedAtFailure ==
  (httpRoute = "/combined") =>
    /\ Len(httpSent) <= 1
    /\ (stage = "responded") => (Len(httpSent) = 1)
    /\ \A i \in DOMAIN callLog :
         (callLog[i].result = "failed") =>
           /\ i = Len(callLog)
           /\ InFlight = 0
           /\ Len(httpSent) = 1
    /\ (sends > 0 \/ SomeFailed({"compare"}) \/ Len(callLog) > 2) =>
         /\ Len(callLog) >= 2
         /\ \A i \in 1..2 : callLog[i].kind = "fetch" /\ callLog[i].result = "ok"

\* After a failure no call is issued and no further response is sent.
NothingAfterFailure ==
  SomeFailed({"fetch", "compare"}) =>
    /\ callLog' = callLog
    /\ httpSent' = httpSent
    /\ sends' = sends
    /\ fetch' = fetch

\* C19: in a POST /combined request, once a fetch or a comparison fails no
\* further external call is issued and exactly one HTTP response is sent;
\* no comparison reaches the remote service unless both fetches succeeded.
C19_NoCallAfterFailure ==
  []StoppedAtFailure /\ [][NothingAfterFailure]_vars

C19_Witness ==
  /\ httpRoute = "/combined"
  /\ Len(callLog) = 1
  /\ callLog[1].call = "fetchSource"
  /\ callLog[1].result = "failed"
  /\ sends = 0
  /\ stage = "responded"
  /\ Len(httpSent) = 1
  /\ httpSent[1].status = 500

====
